---- MODULE Spec2Model ----
(***************************************************************************)
(* Model of scripts/story_generator_03.py: the idea parser and selection   *)
(* extraction of write_feature, the filename, paragraph formatting and     *)
(* listing merge of save_to_website, and the control flow of main.         *)
(*                                                                         *)
(* A text is a sequence of one-character strings, so that every regular    *)
(* expression and string method of the source is translated character by   *)
(* character.  The listing document (index.html) is a sequence of markup   *)
(* tokens: the tags the merge patterns look at, whitespace between them,   *)
(* and the card contents that carry a story link.  The headline, date and  *)
(* description written into a card are one text token: they are taken to   *)
(* hold no markup of their own.  merged is a history variable: the         *)
(* filenames of the listing updates made so far.                           *)
(***************************************************************************)
EXTENDS Integers, Sequences, FiniteSets, TLC

(***************************************************************************)
(* Characters and the str methods used by the source                       *)
(***************************************************************************)
UpperCase == <<"A","B","C","D","E","F","G","H","I","J","K","L","M",
               "N","O","P","Q","R","S","T","U","V","W","X","Y","Z">>
LowerCase == <<"a","b","c","d","e","f","g","h","i","j","k","l","m",
               "n","o","p","q","r","s","t","u","v","w","x","y","z">>
DigitChars == <<"0","1","2","3","4","5","6","7","8","9">>

NL == "\n"
SP == " "
QUOTE == "\""

Range(s) == {s[i] : i \in 1..Len(s)}

\* F(v) with v evaluated once: the value a local variable holds
Bind(v, F(_)) == CHOOSE r \in {F(b) : b \in {v}} : TRUE

IsUpper(c) == c \in Range(UpperCase)
IsLower(c) == c \in Range(LowerCase)
IsDigit(c) == c \in Range(DigitChars)
\* \s of the re module
IsSpace(c) == c \in {SP, NL, "\t"}
\* \w of the re module
IsWord(c) == IsUpper(c) \/ IsLower(c) \/ IsDigit(c) \/ c = "_"

\* str.lower, one character
LowerChar(c) == IF IsUpper(c)
                THEN LowerCase[CHOOSE i \in 1..26 : UpperCase[i] = c]
                ELSE c
\* str.lower
Lower(t) == Bind(t, LAMBDA s : [i \in 1..Len(s) |-> LowerChar(s[i])])

DigitVal(c) == (CHOOSE i \in 1..10 : DigitChars[i] = c) - 1

\* int(s) for a text of digits
RECURSIVE ParseInt(_)
ParseInt(t) == IF t = <<>> THEN 0
               ELSE 10 * ParseInt(SubSeq(t, 1, Len(t) - 1)) + DigitVal(t[Len(t)])

\* str(n) for n >= 0
RECURSIVE IntToStr(_)
IntToStr(n) == IF n < 10 THEN <<DigitChars[n + 1]>>
               ELSE IntToStr(n \div 10) \o <<DigitChars[(n % 10) + 1]>>

Drop(t, n) == SubSeq(t, n + 1, Len(t))
Take(t, n) == SubSeq(t, 1, n)

\* the least j in lo..hi with P(j), hi + 1 when there is none
FirstIn(P(_), lo, hi) ==
    IF \E j \in lo..hi : P(j)
    THEN CHOOSE j \in lo..hi : P(j) /\ \A k \in lo..(j - 1) : ~P(k)
    ELSE hi + 1
FirstIndex(P(_), lo, hi) ==
    Bind(lo, LAMBDA a : Bind(hi, LAMBDA b : FirstIn(P, a, b)))
\* the greatest j in lo..hi with P(j), lo - 1 when there is none
LastIn(P(_), lo, hi) ==
    IF \E j \in lo..hi : P(j)
    THEN CHOOSE j \in lo..hi : P(j) /\ \A k \in (j + 1)..hi : ~P(k)
    ELSE lo - 1
LastIndex(P(_), lo, hi) ==
    Bind(lo, LAMBDA a : Bind(hi, LAMBDA b : LastIn(P, a, b)))

\* the first index >= i whose character is not whitespace (Len+1 when none)
SkipSpace(t, i) == FirstIndex(LAMBDA j : ~IsSpace(t[j]), i, Len(t))

\* the first index >= i whose character is not a digit
SkipDigits(t, i) == FirstIndex(LAMBDA j : ~IsDigit(t[j]), i, Len(t))

\* str.lstrip, str.rstrip, str.strip
LStrip(t) == Bind(t, LAMBDA s : Drop(s, SkipSpace(s, 1) - 1))
RStrip(t) == Bind(t, LAMBDA s : Take(s, LastIndex(LAMBDA j : ~IsSpace(s[j]), 1, Len(s))))
Strip(t) == RStrip(LStrip(t))

\* str.strip('-')
StripHyphens(t) ==
    Bind(t, LAMBDA s :
        SubSeq(s, FirstIndex(LAMBDA j : s[j] # "-", 1, Len(s)),
                  LastIndex(LAMBDA j : s[j] # "-", 1, Len(s))))

\* the index of the first c at or after i, 0 when there is none
Find(t, c, i) ==
    Bind(FirstIndex(LAMBDA x : t[x] = c, i, Len(t)),
         LAMBDA j : IF j > Len(t) THEN 0 ELSE j)

\* str.split(c) with no limit, from index i
RECURSIVE SplitFrom(_, _, _)
SplitFrom(t, c, i) ==
    Bind(Find(t, c, i), LAMBDA k :
        IF k = 0 THEN <<SubSeq(t, i, Len(t))>>
        ELSE <<SubSeq(t, i, k - 1)>> \o Bind(k + 1, LAMBDA n : SplitFrom(t, c, n)))
Split(t, c) == Bind(t, LAMBDA s : SplitFrom(s, c, 1))

\* the pattern p occurs in t at index i (literal match)
MatchAt(t, i, p) == /\ i >= 1
                    /\ i + Len(p) - 1 <= Len(t)
                    /\ \A k \in 1..Len(p) : t[i + k - 1] = p[k]
\* the same under re.IGNORECASE
MatchAtCI(t, i, p) == /\ i >= 1
                      /\ i + Len(p) - 1 <= Len(t)
                      /\ \A k \in 1..Len(p) : LowerChar(t[i + k - 1]) = LowerChar(p[k])
\* str.startswith
StartsWith(t, p) == MatchAt(t, 1, p)
\* "\n".join(lines) and " ".join(words)
RECURSIVE Join(_, _)
Join(parts, sep) == IF parts = <<>> THEN <<>>
                    ELSE IF Len(parts) = 1 THEN parts[1]
                    ELSE parts[1] \o sep \o Join(Tail(parts), sep)

(***************************************************************************)
(* dict: insertion-ordered, as a sequence of [k, v] with distinct keys     *)
(***************************************************************************)
DictKeys(d) == Bind(d, LAMBDA e : [i \in 1..Len(e) |-> e[i].k])
DictHas(d, key) == \E i \in 1..Len(d) : d[i].k = key
DictGet(d, key, default) ==
    Bind(d, LAMBDA e :
        IF DictHas(e, key) THEN e[CHOOSE i \in 1..Len(e) : e[i].k = key].v
        ELSE default)
\* d[key] = val: a present key keeps its position
DictPut(d, key, val) ==
    Bind(d, LAMBDA e :
        IF DictHas(e, key)
        THEN [i \in 1..Len(e) |-> IF e[i].k = key THEN [k |-> key, v |-> val] ELSE e[i]]
        ELSE Append(e, [k |-> key, v |-> val]))

(***************************************************************************)
(* write_feature: the numbered list of ideas                               *)
(***************************************************************************)
\* current_number = None
NoNumber == -1

\* [line.strip() for line in lines if line.strip()]
StrippedNonEmpty(lines) ==
    Bind(lines, LAMBDA ls :
        Bind([i \in 1..Len(ls) |-> Strip(ls[i])],
             LAMBDA stripped : SelectSeq(stripped, LAMBDA l : l # <<>>)))
\* idea_lines (line 98)
IdeaLines(ideas) == StrippedNonEmpty(Split(ideas, NL))

\* re.match(r'^\d+\.', line)
IsNumberedLine(line) ==
    Bind(SkipDigits(line, 1), LAMBDA k : k > 1 /\ k <= Len(line) /\ line[k] = ".")

\* int(line.split('.', 1)[0]) and line.split('.', 1)[1].strip()
LineNumber(line) == ParseInt(Take(line, Find(line, ".", 1) - 1))
LineRest(line) == Strip(Drop(line, Find(line, ".", 1)))

\* the flush without the test for collected text
FlushIdeaAlways(st) ==
    IF st.num # NoNumber THEN Append(st.list, <<st.num, st.idea>>) ELSE st.list

\* the flush of the idea collected so far
FlushIdea(st) ==
    IF st.num # NoNumber /\ st.idea # <<>>
    THEN Append(st.list, <<st.num, st.idea>>)
    ELSE st.list

\* one iteration of the loop over idea_lines
ParseStep(st, line) ==
    IF IsNumberedLine(line)
    THEN [num |-> LineNumber(line), idea |-> LineRest(line), list |-> FlushIdea(st)]
    ELSE IF st.num # NoNumber
    THEN [st EXCEPT !.idea = st.idea \o <<SP>> \o line]
    ELSE st

\* the loop over idea_lines, from line i on
RECURSIVE ParseLines(_, _, _)
ParseLines(st, lines, i) ==
    IF i > Len(lines) THEN st
    ELSE Bind(ParseStep(st, lines[i]), LAMBDA next : ParseLines(next, lines, i + 1))

\* idea_list: the sequence of (number, text) pairs
IdeaList(ideas) ==
    Bind(IdeaLines(ideas), LAMBDA lines :
        Bind(ParseLines([num |-> NoNumber, idea |-> <<>>, list |-> <<>>], lines, 1),
             LAMBDA st : FlushIdea(st)))

\* idea_dict = {num: text for num, text in idea_list}
RECURSIVE IdeaDictFrom(_, _, _)
IdeaDictFrom(d, list, i) ==
    IF i > Len(list) THEN d
    ELSE Bind(DictPut(d, list[i][1], list[i][2]),
              LAMBDA next : IdeaDictFrom(next, list, i + 1))
IdeaDict(list) == Bind(list, LAMBDA l : IdeaDictFrom(<<>>, l, 1))

(***************************************************************************)
(* write_feature: title and description of each idea                       *)
(***************************************************************************)
\* re.search(r'"([^"]+)"', text): <<i, j>>, the opening and closing quote of the
\* leftmost match, <<0, 0>> when there is none
RECURSIVE QuotedFrom(_, _)
QuotedFrom(text, i) ==
    Bind(Find(text, QUOTE, i), LAMBDA a :
        Bind(IF a = 0 THEN 0 ELSE Find(text, QUOTE, a + 1), LAMBDA b :
            IF a = 0 \/ b = 0 THEN <<0, 0>>
            ELSE IF b >= a + 2 THEN <<a, b>>
            ELSE QuotedFrom(text, a + 1)))
TitleMatch(text) == QuotedFrom(text, 1)

\* r'"[^"]+":\s*' matched at index i: the index after the match, 0 when none
QuotedColonEnd(text, i) ==
    Bind(IF text[i] = QUOTE THEN Find(text, QUOTE, i + 1) ELSE 0, LAMBDA b :
        IF b >= i + 2 /\ b + 1 <= Len(text) /\ text[b + 1] = ":"
        THEN SkipSpace(text, b + 2)
        ELSE 0)

\* re.sub(r'"[^"]+":\s*', '', text), scanning from index i
RECURSIVE SubQuotedColon(_, _)
SubQuotedColon(text, i) ==
    Bind(FirstIndex(LAMBDA j : QuotedColonEnd(text, j) # 0, i, Len(text)), LAMBDA m :
        IF m > Len(text) THEN SubSeq(text, i, Len(text))
        ELSE SubSeq(text, i, m - 1)
             \o Bind(QuotedColonEnd(text, m), LAMBDA e : SubQuotedColon(text, e)))

NoInfo == [has |-> FALSE, title |-> <<>>, description |-> <<>>, full_text |-> <<>>]

\* the parsed_ideas entry of one idea text (has = FALSE: no entry is made)
IdeaInfoOf(text, m, c) ==
    IF m[1] # 0
    THEN [has |-> TRUE,
          title |-> SubSeq(text, m[1] + 1, m[2] - 1),
          description |-> Strip(SubQuotedColon(text, 1)),
          full_text |-> text]
    ELSE IF c # 0
    THEN [has |-> TRUE,
          title |-> Strip(Take(text, c - 1)),
          description |-> Strip(Drop(text, c)),
          full_text |-> text]
    ELSE NoInfo
IdeaInfo(text) ==
    Bind(text, LAMBDA t :
        Bind(TitleMatch(t), LAMBDA m :
            Bind(Find(t, ":", 1), LAMBDA c : IdeaInfoOf(t, m, c))))

\* parsed_ideas, built by the loop over idea_list
RECURSIVE ParsedFrom(_, _, _)
ParsedFrom(d, list, i) ==
    IF i > Len(list) THEN d
    ELSE Bind(IdeaInfo(list[i][2]), LAMBDA info :
            Bind(IF info.has THEN DictPut(d, list[i][1], info) ELSE d,
                 LAMBDA next : ParsedFrom(next, list, i + 1)))
ParsedIdeas(list) == Bind(list, LAMBDA l : ParsedFrom(<<>>, l, 1))

(***************************************************************************)
(* write_feature: the chosen idea number and the metadata                  *)
(***************************************************************************)
SelectVerbs == {<<"c","h","o","s","e">>,
                <<"c","h","o","o","s","e">>,
                <<"s","e","l","e","c","t">>,
                <<"p","i","c","k","e","d">>,
                <<"a","m"," ","c","h","o","o","s","i","n","g">>}
W_ve == <<"'","v","e">>
W_idea_sp == <<"i","d","e","a"," ">>
W_number_sp == <<"n","u","m","b","e","r"," ">>

\* r"I(?:'ve)? (?:chose|choose|select|picked|am choosing) idea (?:number )?(\d+)"
\* matched at index i under re.IGNORECASE: the indices where the digits may start
SentenceDigitsAt(t, i) ==
    IF ~MatchAtCI(t, i, <<"I">>) THEN {}
    ELSE LET afterI == {i + 1} \cup (IF MatchAtCI(t, i + 1, W_ve) THEN {i + 4} ELSE {})
             afterVerb == {j + Len(v) + 7 : <<j, v>> \in
                             {p \in afterI \X SelectVerbs :
                                 MatchAtCI(t, p[1], <<SP>> \o p[2] \o <<SP>> \o W_idea_sp)}}
             afterNum == afterVerb \cup
                         {k + 7 : k \in {x \in afterVerb : MatchAtCI(t, x, W_number_sp)}}
         IN {d \in afterNum : d <= Len(t) /\ IsDigit(t[d])}

\* r"Idea (?:number )?(\d+):" matched at index i under re.IGNORECASE
LabelDigitsAt(t, i) ==
    IF ~MatchAtCI(t, i, W_idea_sp) THEN {}
    ELSE LET a == i + 5
             starts == {a} \cup (IF MatchAtCI(t, a, W_number_sp) THEN {a + 7} ELSE {})
         IN {d \in starts : /\ d <= Len(t) /\ IsDigit(t[d])
                            /\ SkipDigits(t, d) <= Len(t)
                            /\ t[SkipDigits(t, d)] = ":"}

\* int(match.group(1)) of the leftmost match, NoNumber when re.search finds none
DigitsNumber(t, d) == ParseInt(SubSeq(t, d, SkipDigits(t, d) - 1))
SentenceNumber(t) ==
    Bind(FirstIndex(LAMBDA i : SentenceDigitsAt(t, i) # {}, 1, Len(t)), LAMBDA i :
        IF i > Len(t) THEN NoNumber
        ELSE DigitsNumber(t, CHOOSE x \in SentenceDigitsAt(t, i) : TRUE))
LabelNumber(t) ==
    Bind(FirstIndex(LAMBDA i : LabelDigitsAt(t, i) # {}, 1, Len(t)), LAMBDA i :
        IF i > Len(t) THEN NoNumber
        ELSE DigitsNumber(t, CHOOSE x \in LabelDigitsAt(t, i) : TRUE))

\* the number of whichever pattern matches leftmost in the text
IdeaNumberLeftmost(response) ==
    Bind(response, LAMBDA t :
        Bind(FirstIndex(LAMBDA i : SentenceDigitsAt(t, i) # {} \/ LabelDigitsAt(t, i) # {},
                        1, Len(t)), LAMBDA i :
            IF i > Len(t) THEN 1
            ELSE DigitsNumber(t, CHOOSE x \in SentenceDigitsAt(t, i) \cup LabelDigitsAt(t, i) : TRUE)))
\* idea_number (lines 175-179)
IdeaNumber(response) ==
    Bind(response, LAMBDA t :
        Bind(SentenceNumber(t), LAMBDA a :
            IF a # NoNumber THEN a
            ELSE Bind(LabelNumber(t), LAMBDA b : IF b # NoNumber THEN b ELSE 1)))

W_fallback_headline == <<"V","a","n","i","t","y"," ","F","a","i","r"," ","F","e","a","t","u","r","e",":"," ","I","d","e","a"," ">>

\* f"Vanity Fair Feature: Idea {idea_number}"
FallbackHeadline(n) == W_fallback_headline \o IntToStr(n)

\* the metadata write_feature returns (lines 181-197)
MetadataOf(n, info, chosen) ==
    [idea_number |-> n,
     headline |-> IF info.has THEN info.title ELSE FallbackHeadline(n),
     description |-> IF info.has THEN info.description ELSE chosen,
     chosen_idea |-> chosen]
Metadata(list, response) ==
    Bind(list, LAMBDA l :
        Bind(IdeaNumber(response), LAMBDA n :
            Bind(DictGet(ParsedIdeas(l), n, NoInfo), LAMBDA info :
                Bind(DictGet(IdeaDict(l), n, <<>>), LAMBDA chosen :
                    MetadataOf(n, info, chosen)))))

(***************************************************************************)
(* save_to_website: the slug and the filename (lines 225-261)              *)
(***************************************************************************)
SlugMaxLen == 40
ScanLines == 20
MinLineLen == 15
MinTitleLen == 10

\* re.sub(r'[^\w\s-]', '', t)
KeepsInSlug(c) == IsWord(c) \/ IsSpace(c) \/ c = "-"
KeepWordSpaceHyphen(t) == SelectSeq(t, KeepsInSlug)

IsSpaceHyphen(c) == IsSpace(c) \/ c = "-"

\* re.sub(r'[\s-]+', '-', t): each maximal run becomes one hyphen
RunStarts(t) ==
    SelectSeq([i \in 1..Len(t) |-> i],
              LAMBDA i : ~IsSpaceHyphen(t[i]) \/ i = 1 \/ ~IsSpaceHyphen(t[i - 1]))
Collapse(t) ==
    Bind(t, LAMBDA s :
        Bind(RunStarts(s), LAMBDA starts :
            [k \in 1..Len(starts) |->
                IF IsSpaceHyphen(s[starts[k]]) THEN "-" ELSE s[starts[k]]]))

\* the two re.sub calls on the lower-cased text (lines 227-229, 239-240, 249-250)
Hyphenate(t) == Collapse(KeepWordSpaceHyphen(Lower(t)))
\* t[:40].strip('-') (lines 231, 242, 251)
Truncate(t) ==
    Bind(t, LAMBDA s :
        StripHyphens(Take(s, IF Len(s) < SlugMaxLen THEN Len(s) ELSE SlugMaxLen)))
Slugify(t) == Truncate(Hyphenate(t))

W_generic_slug == <<"v","a","n","i","t","y","-","f","a","i","r","-","f","e","a","t","u","r","e","-","i","d","e","a">>
W_I_choose == <<"I"," ","c","h","o","o","s","e">>
W_Idea == <<"I","d","e","a">>
W_html == <<".","h","t","m","l">>

\* cleaned_headline == "vanity-fair-feature-idea" or not cleaned_headline
IsGeneric(slug) == slug = W_generic_slug \/ slug = <<>>

\* the loop over story_lines[:20] (lines 237-243) from line i on: the slug of the
\* first usable line, <<>> when the loop ends without a break
RECURSIVE LineSlug(_, _)
LineSlug(lines, i) ==
    IF i > Len(lines) \/ i > ScanLines THEN <<>>
    ELSE Bind(lines[i], LAMBDA line :
            Bind(Hyphenate(line), LAMBDA potential_title :
                IF /\ Len(Strip(line)) > MinLineLen
                   /\ ~StartsWith(line, W_I_choose)
                   /\ ~StartsWith(line, W_Idea)
                   /\ Len(potential_title) > MinTitleLen
                THEN Truncate(potential_title)
                ELSE LineSlug(lines, i + 1)))

\* re.sub(r'^\d+\.\s*', '', text)
StripLeadingNumber(text) ==
    Bind(text, LAMBDA t :
        IF IsNumberedLine(t) THEN Drop(t, SkipSpace(t, SkipDigits(t, 1) + 1) - 1) ELSE t)

\* cleaned_headline after the scan of the story lines (lines 233-243)
SecondSlug(first, story) ==
    IF ~IsGeneric(first) THEN first
    ELSE Bind(Split(Strip(story), NL), LAMBDA story_lines :
            Bind(LineSlug(story_lines, 1), LAMBDA fromStory :
                IF fromStory # <<>> THEN fromStory ELSE first))

\* cleaned_headline as it stands at line 253
CleanedHeadline(story, metadata) ==
    Bind(Slugify(metadata.headline), LAMBDA first :
        Bind(SecondSlug(first, story), LAMBDA second :
            IF IsGeneric(first) /\ IsGeneric(second) /\ metadata.chosen_idea # <<>>
            THEN Slugify(StripLeadingNumber(metadata.chosen_idea))
            ELSE second))

\* f"{date_str}-{cleaned_headline}.html" and f"{date_str}-{cleaned_headline}-{counter}.html"
BaseName(date, slug) == date \o <<"-">> \o slug \o W_html
SuffixName(date, slug, counter) ==
    date \o <<"-">> \o slug \o <<"-">> \o IntToStr(counter) \o W_html

\* the loop as a single test: one suffix is tried and taken
UniqueLoopOnce(date, slug, names, filename, counter) ==
    IF filename \in names THEN SuffixName(date, slug, counter) ELSE filename

\* the while loop of lines 259-261, entered with filename and counter
RECURSIVE UniqueLoop(_, _, _, _, _)
UniqueLoop(date, slug, names, filename, counter) ==
    IF filename \in names
    THEN Bind(SuffixName(date, slug, counter), LAMBDA next :
            UniqueLoop(date, slug, names, next, counter + 1))
    ELSE filename

\* the filename without the test for existing files
FirstFilename(date, slug, names) == BaseName(date, slug)

\* filename as it stands at line 262, names being the names os.path.exists finds
UniqueFilename(date, slug, names) ==
    Bind(slug, LAMBDA s :
        Bind(BaseName(date, s), LAMBDA base : UniqueLoop(date, s, names, base, 1)))

(***************************************************************************)
(* save_to_website: the story text as paragraphs (lines 434-500)           *)
(***************************************************************************)
\* ^ under re.MULTILINE
AtLineStart(t, i) == i = 1 \/ t[i - 1] = NL

\* the first index >= i whose character is not a newline
SkipNewlines(t, i) == FirstIndex(LAMBDA j : t[j] # NL, i, Len(t))

\* words joined by \s+, matched at index i under re.IGNORECASE: the index after the
\* match, 0 when there is none
RECURSIVE WordsEnd(_, _, _, _)
WordsEnd(t, i, words, w) ==
    IF ~MatchAtCI(t, i, words[w]) THEN 0
    ELSE Bind(i + Len(words[w]), LAMBDA e :
            IF w = Len(words) THEN e
            ELSE Bind(SkipSpace(t, e), LAMBDA n :
                    IF n = e THEN 0 ELSE WordsEnd(t, n, words, w + 1)))

\* the alternatives of choice_pattern before [^\n]*\n+ (line 440)
ChoicePrefixes ==
    { <<<<"I">>, <<"c","h","o","o","s","e">>>>,
      <<<<"I">>, <<"c","h","o","s","e">>>>,
      <<<<"I">>, <<"s","e","l","e","c","t">>>>,
      <<<<"I">>, <<"p","i","c","k","e","d">>>>,
      <<<<"I">>, <<"a","m">>, <<"c","h","o","o","s","i","n","g">>>>,
      <<<<"I">>, <<"a","m">>, <<"g","o","i","n","g">>, <<"w","i","t","h">>>>,
      <<<<"I">>, <<"d","e","c","i","d","e","d">>, <<"o","n">>>>,
      <<<<"I">>, <<"w","i","l","l">>, <<"g","o">>, <<"w","i","t","h">>>>,
      <<<<"S","e","l","e","c","t","e","d">>>>,
      <<<<"C","h","o","s","e","n">>>>,
      <<<<"I","d","e","a">>, <<"#">>>>,
      <<<<"I","d","e","a">>, <<"0">>>>, <<<<"I","d","e","a">>, <<"1">>>>, <<<<"I","d","e","a">>, <<"2">>>>,
      <<<<"I","d","e","a">>, <<"3">>>>, <<<<"I","d","e","a">>, <<"4">>>>, <<<<"I","d","e","a">>, <<"5">>>>,
      <<<<"I","d","e","a">>, <<"6">>>>, <<<<"I","d","e","a">>, <<"7">>>>, <<<<"I","d","e","a">>, <<"8">>>>,
      <<<<"I","d","e","a">>, <<"9">>>> }

\* choice_pattern matched at index i: the index after the match, 0 when none
ChoiceEndFrom(t, ends) ==
    IF ends = {} THEN 0
    ELSE Bind(Find(t, NL, CHOOSE x \in ends : \A y \in ends : x <= y), LAMBDA eol :
            IF eol = 0 THEN 0 ELSE SkipNewlines(t, eol))
ChoiceEnd(t, i) ==
    IF ~AtLineStart(t, i) THEN 0
    ELSE Bind({WordsEnd(t, i, w, 1) : w \in ChoicePrefixes} \ {0},
              LAMBDA ends : ChoiceEndFrom(t, ends))

\* [A-Z\s:]
IsCapsClass(c) == IsUpper(c) \/ IsSpace(c) \/ c = ":"
SkipCapsClass(t, i) == FirstIndex(LAMBDA j : ~IsCapsClass(t[j]), i, Len(t))

\* the last newline in t[lo..hi], 0 when there is none
LastNewline(t, lo, hi) ==
    IF hi < lo THEN 0
    ELSE Bind(LastIndex(LAMBDA x : t[x] = NL, lo, hi), LAMBDA j : IF j < lo THEN 0 ELSE j)

TitleMinLen == 10

\* title_pattern r'^(#\s+.*?\n+|[A-Z\s:]{10,}$\n+)' matched at index i (line 444):
\* the index after the match, 0 when there is none
HashTitleEnd(t, i, e) ==
    IF e = i + 1 THEN 0
    ELSE Bind(Find(t, NL, e), LAMBDA eol :
            IF eol # 0 THEN SkipNewlines(t, eol)
            ELSE Bind(LastNewline(t, i + 2, e - 1), LAMBDA back :
                    IF back # 0 THEN back + 1 ELSE 0))
CapsTitleEnd(t, i) ==
    Bind(SkipCapsClass(t, i), LAMBDA r :
        Bind(LastNewline(t, i + TitleMinLen, r - 1), LAMBDA q :
            IF q = 0 THEN 0 ELSE q + 1))
TitleEnd(t, i) ==
    IF ~AtLineStart(t, i) THEN 0
    ELSE IF t[i] = "#" THEN Bind(SkipSpace(t, i + 1), LAMBDA e : HashTitleEnd(t, i, e))
    ELSE CapsTitleEnd(t, i)

\* re.sub(choice_pattern, '', t) and re.sub(title_pattern, '', t), from index i
RECURSIVE SubChoice(_, _)
SubChoice(t, i) ==
    Bind(FirstIndex(LAMBDA j : ChoiceEnd(t, j) # 0, i, Len(t)), LAMBDA m :
        IF m > Len(t) THEN SubSeq(t, i, Len(t))
        ELSE SubSeq(t, i, m - 1)
             \o Bind(ChoiceEnd(t, m), LAMBDA e : SubChoice(t, e)))
RECURSIVE SubTitle(_, _)
SubTitle(t, i) ==
    Bind(FirstIndex(LAMBDA j : TitleEnd(t, j) # 0, i, Len(t)), LAMBDA m :
        IF m > Len(t) THEN SubSeq(t, i, Len(t))
        ELSE SubSeq(t, i, m - 1)
             \o Bind(TitleEnd(t, m), LAMBDA e : SubTitle(t, e)))

\* story_text as it stands at line 446
StoryText(story) ==
    Bind(Strip(story), LAMBDA stripped :
        Bind(SubChoice(stripped, 1), LAMBDA chosen : SubTitle(chosen, 1)))

W_rule_dash == <<"-","-","-">>
W_rule_eq == <<"=","=","=">>
MidPatterns == {<<"B","a","s","e","d"," ","o","n">>, <<"I"," ","w","i","l","l"," ","u","s","e">>, <<"I"," ","h","a","v","e"," ","c","h","o","s","e","n">>}

\* the lines the paragraph loop skips (lines 460-465)
IsSkippedLine(line) ==
    \/ StartsWith(line, <<"#">>)
    \/ StartsWith(line, W_rule_dash)
    \/ StartsWith(line, W_rule_eq)
    \/ \E p \in MidPatterns : MatchAtCI(line, 1, p)

\* one pass of the loop over story_lines (lines 452-470) on
\* st = [paragraph, paragraphs], line being the stripped line
ParagraphStep(st, line) ==
    IF line = <<>>
    THEN IF st.paragraph # <<>>
         THEN [paragraph |-> <<>>, paragraphs |-> Append(st.paragraphs, st.paragraph)]
         ELSE st
    ELSE IF IsSkippedLine(line) THEN st
    ELSE IF st.paragraph # <<>>
    THEN [st EXCEPT !.paragraph = st.paragraph \o <<SP>> \o line]
    ELSE [st EXCEPT !.paragraph = line]

\* the loop over story_lines, from line i on
RECURSIVE ParagraphLoop(_, _, _)
ParagraphLoop(st, lines, i) ==
    IF i > Len(lines) THEN st
    ELSE Bind(Strip(lines[i]), LAMBDA line :
            Bind(ParagraphStep(st, line), LAMBDA next : ParagraphLoop(next, lines, i + 1)))

\* story_text.split("\n\n"), from index i
RECURSIVE SplitBlank(_, _)
SplitBlank(t, i) ==
    Bind(FirstIndex(LAMBDA j : MatchAt(t, j, <<NL, NL>>), i, Len(t)), LAMBDA m :
        IF m > Len(t) THEN <<SubSeq(t, i, Len(t))>>
        ELSE <<SubSeq(t, i, m - 1)>> \o Bind(m + 2, LAMBDA n : SplitBlank(t, n)))

\* paragraphs after the loop and the append of the last paragraph (lines 452-474)
LoopedParagraphs(text) ==
    Bind(Split(text, NL), LAMBDA story_lines :
        Bind(ParagraphLoop([paragraph |-> <<>>, paragraphs |-> <<>>], story_lines, 1),
             LAMBDA st : IF st.paragraph # <<>> THEN Append(st.paragraphs, st.paragraph)
                         ELSE st.paragraphs))

\* paragraphs as it stands at line 480
Paragraphs(story) ==
    Bind(StoryText(story), LAMBDA text :
        Bind(LoopedParagraphs(text), LAMBDA looped :
            IF looped # <<>> THEN looped
            ELSE StrippedNonEmpty(SplitBlank(text, 1))))

W_no_content == <<"N","o"," ","c","o","n","t","e","n","t"," ","a","v","a","i","l","a","b","l","e",".">>

\* story_content (lines 482-500): the <p> elements in order, anchor = TRUE for the
\* one written with id="continue-reading"
StoryContent(paragraphs) ==
    IF paragraphs = <<>>
    THEN << [anchor |-> FALSE, text |-> W_no_content] >>
    ELSE IF Len(paragraphs) > 1
    THEN [i \in 1..Len(paragraphs) |-> [anchor |-> (i = 2), text |-> paragraphs[i]]]
    ELSE << [anchor |-> TRUE, text |-> paragraphs[1]] >>

(***************************************************************************)
(* save_to_website: the listing document (lines 543-610)                   *)
(*                                                                         *)
(* Tags of a token:                                                        *)
(*   ws          a run of whitespace                                       *)
(*   mainOpen    <main class="container">       mainClose     </main>      *)
(*   featSecOpen <section class="featured-story">                          *)
(*   archSecOpen <section class="story-archive">                           *)
(*   secOpen     any other <section ...>        sectionClose  </section>   *)
(*   gridOpen    <div class="story-grid">                                  *)
(*   featOpen    <div class="story-card featured">                         *)
(*   cardOpen    <div class="story-card">                                  *)
(*   divOpen     any other <div ...>            divClose      </div>       *)
(*   text        any other element or text                                 *)
(*   link        <a href="stories/{ref}#continue-reading" ...>...</a>      *)
(***************************************************************************)
Tok(tag) == [tag |-> tag, ref |-> <<>>]
Link(filename) == [tag |-> "link", ref |-> filename]
WS == Tok("ws")

\* featured_story (lines 549-560)
FeaturedStory(filename) ==
    << WS, Tok("featOpen"), WS, Tok("text"), WS,
       Tok("divOpen"), WS, Tok("text"), WS, Tok("divClose"), WS,
       Tok("divOpen"), WS, Tok("text"), WS, Link(filename), WS, Tok("divClose"), WS,
       Tok("divClose"), WS >>

\* story_card (lines 563-572)
StoryCard(filename) ==
    << WS, Tok("cardOpen"), WS, Tok("text"), WS,
       Tok("divOpen"), WS, Tok("text"), WS, Tok("divClose"), WS,
       Tok("text"), WS, Link(filename), WS,
       Tok("divClose"), WS >>

\* replacement (lines 579-587)
ArchiveSkeleton ==
    << Tok("sectionClose"), WS,
       Tok("archSecOpen"), WS, Tok("text"), WS,
       Tok("gridOpen"), WS, Tok("divClose"), WS,
       Tok("sectionClose"), WS,
       Tok("mainClose") >>

HasTag(doc, tag) == \E i \in 1..Len(doc) : doc[i].tag = tag
IsTag(doc, i, tag) == i >= 1 /\ i <= Len(doc) /\ doc[i].tag = tag

\* the first index >= i that is not whitespace
SkipWs(doc, i) == FirstIndex(LAMBDA j : doc[j].tag # "ws", i, Len(doc))

\* r'</section>\s*\s*</main>' matched at index i: the index after the match, else 0
SectionMainEnd(doc, i) ==
    IF ~IsTag(doc, i, "sectionClose") THEN 0
    ELSE Bind(SkipWs(doc, i + 1), LAMBDA j :
            IF IsTag(doc, j, "mainClose") THEN j + 1 ELSE 0)

\* re.sub(main_container_pattern, replacement, index_content), from index i
RECURSIVE SubSectionMain(_, _)
SubSectionMain(doc, i) ==
    Bind(FirstIndex(LAMBDA j : SectionMainEnd(doc, j) # 0, i, Len(doc)), LAMBDA m :
        IF m > Len(doc) THEN SubSeq(doc, i, Len(doc))
        ELSE SubSeq(doc, i, m - 1) \o ArchiveSkeleton
             \o Bind(SectionMainEnd(doc, m), LAMBDA e : SubSectionMain(doc, e)))

\* the bootstrap without the test for the marker
BootstrapUnguarded(doc) == Bind(doc, LAMBDA d : SubSectionMain(d, 1))

\* lines 576-588
Bootstrap(doc) ==
    Bind(doc, LAMBDA d : IF ~HasTag(d, "gridOpen") THEN SubSectionMain(d, 1) ELSE d)

\* </div>\s*</div> at index j
IsDivDiv(doc, j) ==
    IsTag(doc, j, "divClose") /\ IsTag(doc, SkipWs(doc, j + 1), "divClose")

\* the first j >= i with </div>\s*</div> at j: the index after it, 0 when none
DivDivEnd(doc, i) ==
    Bind(FirstIndex(LAMBDA x : IsDivDiv(doc, x), i, Len(doc)), LAMBDA j :
        IF j > Len(doc) THEN 0 ELSE SkipWs(doc, j + 1) + 1)

\* featured_pattern r'<div class="story-card featured">[\s\S]*?</div>\s*</div>'
\* matched at index i: the index after the match, 0 when there is none
FeaturedEnd(doc, i) ==
    IF IsTag(doc, i, "featOpen") THEN DivDivEnd(doc, i + 1) ELSE 0

\* re.sub(featured_pattern, featured_story, index_content), from index i
RECURSIVE SubFeatured(_, _, _)
SubFeatured(doc, i, featured_story) ==
    Bind(FirstIndex(LAMBDA j : FeaturedEnd(doc, j) # 0, i, Len(doc)), LAMBDA m :
        IF m > Len(doc) THEN SubSeq(doc, i, Len(doc))
        ELSE SubSeq(doc, i, m - 1) \o featured_story
             \o Bind(FeaturedEnd(doc, m), LAMBDA e : SubFeatured(doc, e, featured_story)))

\* re.sub(pattern, replacement, index_content) for a pattern r'<tag>\s*'
RECURSIVE SubOpenWs(_, _, _, _)
SubOpenWs(doc, i, tag, replacement) ==
    Bind(FirstIndex(LAMBDA j : doc[j].tag = tag, i, Len(doc)), LAMBDA m :
        IF m > Len(doc) THEN SubSeq(doc, i, Len(doc))
        ELSE SubSeq(doc, i, m - 1) \o replacement
             \o Bind(SkipWs(doc, m + 1), LAMBDA e : SubOpenWs(doc, e, tag, replacement)))

\* lines 590-605
ReplaceFeaturedIn(doc, featured_story) ==
    IF \E i \in 1..Len(doc) : FeaturedEnd(doc, i) # 0
    THEN SubFeatured(doc, 1, featured_story)
    ELSE IF HasTag(doc, "featSecOpen")
    THEN SubOpenWs(doc, 1, "featSecOpen",
                   <<Tok("featSecOpen"), WS>> \o featured_story \o <<WS>>)
    ELSE SubOpenWs(doc, 1, "mainOpen",
                   <<Tok("mainOpen"), WS, Tok("featSecOpen"), WS>> \o featured_story
                   \o <<WS, Tok("sectionClose"), WS>>)
ReplaceFeatured(doc, featured_story) ==
    Bind(doc, LAMBDA d : Bind(featured_story, LAMBDA f : ReplaceFeaturedIn(d, f)))

\* re.sub(story_grid_pattern, ...), from index i (line 610)
RECURSIVE SubGrid(_, _, _)
SubGrid(doc, i, story_card) ==
    Bind(FirstIndex(LAMBDA j : doc[j].tag = "gridOpen", i, Len(doc)), LAMBDA m :
        IF m > Len(doc) THEN SubSeq(doc, i, Len(doc))
        ELSE SubSeq(doc, i, m) \o <<WS>> \o story_card
             \o Bind(m + 1, LAMBDA e : SubGrid(doc, e, story_card)))

\* lines 607-610
InsertArchive(doc, story_card) ==
    Bind(doc, LAMBDA d :
        Bind(story_card, LAMBDA c :
            IF HasTag(d, "gridOpen") THEN SubGrid(d, 1, c) ELSE d))

\* index_content as it stands at line 613
MergeIndex(doc, filename) ==
    InsertArchive(ReplaceFeatured(Bootstrap(doc), FeaturedStory(filename)),
                  StoryCard(filename))

(***************************************************************************)
(* Agent.analyze (lines 39-63)                                             *)
(***************************************************************************)
W_analysis_failed == <<"A","n","a","l","y","s","i","s"," ","f","a","i","l","e","d",":"," ">>
\* str(e) of the exception the client raised
ErrorText == <<"C","o","n","n","e","c","t","i","o","n"," ","e","r","r","o","r",".">>

\* response.usage.input_tokens + response.usage.output_tokens: a positive count
\* fixed by the exchange
UsageTokens(content) == Len(content) + 1

\* analyze answering a failed call with an empty response
AnalyzeEmpty(outcome) ==
    IF outcome.ok
    THEN [response |-> outcome.text, tokens |-> UsageTokens(outcome.text)]
    ELSE [response |-> <<>>, tokens |-> 0]

\* the dict analyze returns: outcome.ok says whether messages.create returned
Analyze(outcome) ==
    IF outcome.ok
    THEN [response |-> outcome.text, tokens |-> UsageTokens(outcome.text)]
    ELSE [response |-> W_analysis_failed \o ErrorText, tokens |-> 0]

(***************************************************************************)
(* The inputs of a run: what the two model calls answer                    *)
(***************************************************************************)
\* the ideas of the editor
IdeasScenario == <<"1","."," ",QUOTE,"R","i","s","e"," ","o","f"," ","X",QUOTE,":"," ","a"," ","p","r","o","f","i","l","e",".",NL,"2","."," ",QUOTE,"F","a","l","l"," ","o","f"," ","Y",QUOTE,":"," ","a","n"," ","e","x","p","o","s","e",".">>
IdeasEmptyTitle == <<"1","."," ",":"," ","a"," ","p","r","o","f","i","l","e",".">>
IdeasUntitled == <<"1",".",NL,"2","."," ","F","a","l","l"," ","o","f"," ","Y">>
IdeasProse == <<"N","o"," ","i","d","e","a","s"," ","t","o","d","a","y",".">>
IdeasBareNumber == <<"1",".">>
EditorResponses ==
    {IdeasScenario, IdeasEmptyTitle, IdeasUntitled, IdeasProse, IdeasBareNumber}

\* the story of the writer
StoryScenario == <<"I"," ","c","h","o","o","s","e"," ","i","d","e","a"," ","n","u","m","b","e","r"," ","1",".",NL,"R","i","s","e"," ","o","f"," ","X",NL,NL,"P","a","r","a","g","r","a","p","h"," ","o","n","e",".",NL,NL,"P","a","r","a","g","r","a","p","h"," ","t","w","o",".">>
StoryEmpty == <<>>
StoryBlank == <<SP, NL>>
StorySecond == <<"I","d","e","a"," ","2",":"," ","F","a","l","l"," ","o","f"," ","Y",NL,NL,"O","n","l","y"," ","p","a","r","a","g","r","a","p","h",".">>
StoryLateAnnouncement == <<"P","a","r","a","g","r","a","p","h"," ","o","n","e",".",NL,"S","e","l","e","c","t","e","d"," ","w","o","r","k","s"," ","f","o","l","l","o","w",".",NL,NL,"P","a","r","a","g","r","a","p","h"," ","t","w","o",".">>
WriterResponses == {StoryScenario, StoryEmpty, StoryBlank, StorySecond}

Outcomes(texts) == {[ok |-> TRUE, text |-> t] : t \in texts}
                   \cup {[ok |-> FALSE, text |-> <<>>]}

(***************************************************************************)
(* State                                                                   *)
(***************************************************************************)
MaxRuns == 2
MaxDays == 2

VARIABLES
    pc,             \* where main stands: start, ideas, returned, index, done, crashed
    runs,           \* the runs of main that have ended
    today,          \* the day datetime.now() falls on, 1..MaxDays
    ideas,          \* main: ideas
    editor_tokens,  \* main: editor_tokens
    story,          \* main: story, [none |-> TRUE] for None
    writer_tokens,  \* main: writer_tokens
    metadata,       \* main: metadata
    filename,       \* save_to_website: filename
    paragraphs,     \* save_to_website: paragraphs
    story_content,  \* save_to_website: story_content
    files,          \* docs/stories: name |-> the run that wrote the page (0: none did)
    index,          \* docs/index.html
    calls,          \* what this run did: the writer was called, save_to_website was
                    \* called, analyze took its except branch for the editor, the writer
    merged,         \* the filenames of the index updates made, oldest first
    story_template, \* where story_template.html is found: "scripts", "stories", "none"
    index_exists,   \* docs/index.html exists (index is <<>> when it does not)
    index_template  \* scripts/index.html exists

vars == <<pc, runs, today, ideas, editor_tokens, story, writer_tokens, metadata,
          filename, paragraphs, story_content, files, index, calls, merged,
          story_template, index_exists, index_template>>

\* the files save_to_website falls back on
resources == <<story_template, index_exists, index_template>>

NoMetadata == [idea_number |-> 0, headline |-> <<>>, description |-> <<>>,
               chosen_idea |-> <<>>]
NoStory == [none |-> TRUE, text |-> <<>>]
NoCalls == [writer |-> FALSE, save |-> FALSE, editor_failed |-> FALSE,
            writer_failed |-> FALSE]

\* today.strftime("%Y%m%d")
DateStr(day) == <<"2","0","2","5","0","1","0">> \o IntToStr(day)

\* the listing documents a first run may find
DocWrapper ==
    << Tok("mainOpen"), WS, Tok("featSecOpen"), WS, Tok("sectionClose"), WS,
       Tok("mainClose") >>
DocBare == << Tok("mainOpen"), WS, Tok("mainClose") >>
DocOtherSection ==
    << Tok("mainOpen"), WS, Tok("secOpen"), Tok("text"), Tok("sectionClose"), WS,
       Tok("mainClose") >>
InitialDocs == {DocWrapper, DocBare, DocOtherSection}

\* where the story template is found (lines 269-277)
TemplatePlaces == {"scripts", "stories", "none"}

\* every fallback file is in place
AllPresent ==
    /\ story_template = "scripts"
    /\ index_exists = TRUE
    /\ index_template = TRUE

\* what a first run may find of them: everything, no listing but its template,
\* nothing
InitialResources ==
    { [story |-> "scripts", index |-> TRUE, template |-> TRUE],
      [story |-> "stories", index |-> FALSE, template |-> TRUE],
      [story |-> "none", index |-> FALSE, template |-> FALSE] }

\* the story pages a first run may find
InitialFiles == { {}, {SuffixName(DateStr(1), <<"r","i","s","e","-","o","f","-","x">>, 1)} }

Locals ==
    /\ ideas = <<>>
    /\ editor_tokens = 0
    /\ story = NoStory
    /\ writer_tokens = 0
    /\ metadata = NoMetadata
    /\ filename = <<>>
    /\ paragraphs = <<>>
    /\ story_content = <<>>
    /\ calls = NoCalls

Init ==
    /\ pc = "start"
    /\ runs = 0
    /\ today = 1
    /\ Locals
    /\ \E names \in InitialFiles : files = [n \in names |-> 0]
    /\ \E r \in InitialResources :
          /\ story_template = r.story
          /\ index_exists = r.index
          /\ index_template = r.template
    /\ index \in (IF index_exists THEN InitialDocs ELSE {<<>>})
    /\ merged = <<>>

(***************************************************************************)
(* main (lines 621-645)                                                    *)
(***************************************************************************)
\* generate_feature_ideas (lines 81-92, 633)
GenerateIdeas ==
    /\ pc = "start"
    /\ runs < MaxRuns
    /\ \E outcome \in Outcomes(EditorResponses) :
          /\ ideas' = Analyze(outcome).response
          /\ editor_tokens' = Analyze(outcome).tokens
          /\ calls' = [calls EXCEPT !.editor_failed = ~outcome.ok]
    /\ pc' = "ideas"
    /\ UNCHANGED <<runs, today, story, writer_tokens, metadata, filename, paragraphs,
                   story_content, files, index, merged>>
    /\ UNCHANGED resources

\* write_feature when no idea is parsed (lines 124-126)
WriteFeatureNoIdeas ==
    /\ pc = "ideas"
    /\ IdeaList(ideas) = <<>>
    /\ story' = NoStory
    /\ writer_tokens' = 0
    /\ metadata' = NoMetadata
    /\ pc' = "returned"
    /\ UNCHANGED <<runs, today, ideas, editor_tokens, filename, paragraphs,
                   story_content, files, index, calls, merged>>
    /\ UNCHANGED resources

\* write_feature with ideas (lines 128-197), the writer answering one of texts
WriteFeatureOn(texts) ==
    /\ pc = "ideas"
    /\ \E idea_list \in {IdeaList(ideas)} :
          /\ idea_list # <<>>
          /\ \E outcome \in Outcomes(texts) :
                \E result \in {Analyze(outcome)} :
                   /\ story' = [none |-> FALSE, text |-> result.response]
                   /\ writer_tokens' = result.tokens
                   /\ metadata' = Metadata(idea_list, result.response)
                   /\ calls' = [calls EXCEPT !.writer = TRUE,
                                             !.writer_failed = ~outcome.ok]
    /\ pc' = "returned"
    /\ UNCHANGED <<runs, today, ideas, editor_tokens, filename, paragraphs,
                   story_content, files, index, merged>>
    /\ UNCHANGED resources
WriteFeature == WriteFeatureOn(WriterResponses)

\* if story: (line 638)
Truthy(s) == ~s.none /\ s.text # <<>>

\* main when story is None or empty (line 638)
SkipSave ==
    /\ pc = "returned"
    /\ ~Truthy(story)
    /\ pc' = "done"
    /\ UNCHANGED <<runs, today, ideas, editor_tokens, story, writer_tokens, metadata,
                   filename, paragraphs, story_content, files, index, calls, merged>>
    /\ UNCHANGED resources

\* the page is not written
WritePageSkipped(fs, name, run) == fs
\* open(story_path, "w"): the page of this run is the file of that name
WritePage(fs, name, run) ==
    [n \in (DOMAIN fs) \cup {name} |-> IF n = name THEN run ELSE fs[n]]

\* the read of the story template (lines 268-432): a template found nowhere is
\* written to scripts/story_template.html
ReadTemplate(place) == IF place = "none" THEN "scripts" ELSE place

\* save_to_website up to the write of the story page (lines 206-519)
SaveStoryPage ==
    /\ pc = "returned"
    /\ Truthy(story)
    /\ \E name \in {UniqueFilename(DateStr(today),
                                   CleanedHeadline(story.text, metadata),
                                   DOMAIN files)} :
          /\ filename' = name
          /\ files' = WritePage(files, name, runs + 1)
    /\ \E ps \in {Paragraphs(story.text)} :
          /\ paragraphs' = ps
          /\ story_content' = StoryContent(ps)
    /\ story_template' = ReadTemplate(story_template)
    /\ calls' = [calls EXCEPT !.save = TRUE]
    /\ pc' = "index"
    /\ UNCHANGED <<runs, today, ideas, editor_tokens, story, writer_tokens, metadata,
                   index, merged, index_exists, index_template>>

\* the contents scripts/index.html may have
IndexTemplates == InitialDocs

\* save_to_website from the read of index.html to its write (lines 532-614)
UpdateIndex ==
    /\ pc = "index"
    /\ index_exists \/ index_template
    /\ \E index_content \in (IF index_exists THEN {index} ELSE IndexTemplates) :
          index' = MergeIndex(index_content, filename)
    /\ index_exists' = TRUE
    /\ merged' = Append(merged, filename)
    /\ pc' = "done"
    /\ UNCHANGED <<runs, today, ideas, editor_tokens, story, writer_tokens, metadata,
                   filename, paragraphs, story_content, files, calls,
                   story_template, index_template>>

\* save_to_website when neither docs/index.html nor scripts/index.html exists:
\* the open of line 540 raises FileNotFoundError and nothing catches it
UpdateIndexFails ==
    /\ pc = "index"
    /\ ~index_exists
    /\ ~index_template
    /\ pc' = "crashed"
    /\ UNCHANGED <<runs, today, ideas, editor_tokens, story, writer_tokens, metadata,
                   filename, paragraphs, story_content, files, index, calls, merged>>
    /\ UNCHANGED resources

\* the process ends; the next one starts on the same day or a later one
EndRun ==
    /\ pc \in {"done", "crashed"}
    /\ runs' = runs + 1
    /\ today' \in {d \in today..MaxDays : d <= today + 1}
    /\ pc' = "start"
    /\ ideas' = <<>>
    /\ editor_tokens' = 0
    /\ story' = NoStory
    /\ writer_tokens' = 0
    /\ metadata' = NoMetadata
    /\ filename' = <<>>
    /\ paragraphs' = <<>>
    /\ story_content' = <<>>
    /\ calls' = NoCalls
    /\ UNCHANGED <<files, index, merged>>
    /\ UNCHANGED resources

Next ==
    \/ GenerateIdeas
    \/ WriteFeatureNoIdeas
    \/ WriteFeature
    \/ SkipSave
    \/ SaveStoryPage
    \/ UpdateIndex
    \/ UpdateIndexFails
    \/ EndRun

Spec == Init /\ [][Next]_vars

(***************************************************************************)
(* Bounded families of inputs                                              *)
(***************************************************************************)
MaxIdeaLines == 3
MaxStoryLines == 3
MaxSuffix == 3

\* the sequences over S of length at most n
SeqsUpTo(S, n) == UNION {[1..k -> S] : k \in 0..n}

\* the lines an ideas text is made of: bare numbers, numbered ideas, a continuation
\* line, a blank line, an idea with an empty title, a quoted and an unquoted title,
\* a quoted title followed by a dash
IdeaLineKinds ==
    { <<"1",".">>,
      <<"2",".">>,
      <<"1","."," ","a">>,
      <<"2","."," ","b">>,
      <<"c">>,
      <<>>,
      <<"1","."," ",":"," ","a">>,
      <<"2","."," ",QUOTE,"T",QUOTE,":"," ","d">>,
      <<"1","."," ","e",":"," ","f">>,
      <<"1","."," ",QUOTE,"U",QUOTE," ","-"," ","g">> }
\* every ideas text of at most MaxIdeaLines such lines
IdeaTexts == {Join(ls, <<NL>>) : ls \in SeqsUpTo(IdeaLineKinds, MaxIdeaLines)}

\* the lines a story is made of: an announcement, a mixed-case and an upper-case
\* headline, a markdown heading, body lines, blank lines, a rule, a preamble
StoryLineKinds ==
    { <<"I"," ","c","h","o","o","s","e"," ","i","d","e","a"," ","n","u","m","b","e","r"," ","1",".">>,
      <<"R","i","s","e"," ","o","f"," ","X">>,
      <<"R","I","S","E"," ","O","F"," ","T","H","E"," ","X">>,
      <<"#"," ","T","i","t","l","e">>,
      <<"P","a","r","a","g","r","a","p","h"," ","o","n","e",".">>,
      <<"P","a","r","a","g","r","a","p","h"," ","t","w","o",".">>,
      <<>>,
      <<" ">>,
      <<"-","-","-">>,
      <<"B","a","s","e","d"," ","o","n"," ","x">> }
\* every story of at most MaxStoryLines such lines, the scenario story and a story
\* with an announcement-like line inside its first paragraph
StoryTexts == {Join(ls, <<NL>>) : ls \in SeqsUpTo(StoryLineKinds, MaxStoryLines)}
              \cup {StoryScenario, StoryLateAnnouncement}

\* the state main is in when write_feature has returned the story storyText for
\* the ideas ideasText
AfterWriter(ideasText, storyText) ==
    /\ pc = "returned"
    /\ runs = 0
    /\ ideas = ideasText
    /\ editor_tokens = UsageTokens(ideasText)
    /\ story = [none |-> FALSE, text |-> storyText]
    /\ writer_tokens = UsageTokens(storyText)
    /\ metadata = Metadata(IdeaList(ideasText), storyText)
    /\ filename = <<>>
    /\ paragraphs = <<>>
    /\ story_content = <<>>
    /\ calls = [NoCalls EXCEPT !.writer = TRUE]
    /\ merged = <<>>

(***************************************************************************)
(* write_feature on every ideas text of the family                         *)
(***************************************************************************)
InitIdeas ==
    /\ pc = "ideas"
    /\ runs = 0
    /\ today = 1
    /\ ideas \in IdeaTexts
    /\ editor_tokens = UsageTokens(ideas)
    /\ story = NoStory
    /\ writer_tokens = 0
    /\ metadata = NoMetadata
    /\ filename = <<>>
    /\ paragraphs = <<>>
    /\ story_content = <<>>
    /\ calls = NoCalls
    /\ files = [n \in {} |-> 0]
    /\ index = DocWrapper
    /\ AllPresent
    /\ merged = <<>>

NextIdeas ==
    \/ WriteFeatureNoIdeas
    \/ WriteFeature

SpecIdeas == InitIdeas /\ [][NextIdeas]_vars

(***************************************************************************)
(* save_to_website on every story of the family                            *)
(***************************************************************************)
InitFormat ==
    /\ \E s \in StoryTexts : AfterWriter(IdeasScenario, s)
    /\ today = 1
    /\ files = [n \in {} |-> 0]
    /\ index = DocWrapper
    /\ AllPresent

NextFormat ==
    \/ SkipSave
    \/ SaveStoryPage

SpecFormat == InitFormat /\ [][NextFormat]_vars

(***************************************************************************)
(* save_to_website on every set of existing story pages of the family      *)
(***************************************************************************)
\* the names '{date}-{slug}.html' and '{date}-{slug}-{k}.html', k up to MaxSuffix
NamesOf(date, slug) ==
    {BaseName(date, slug)} \cup {SuffixName(date, slug, k) : k \in 1..MaxSuffix}

InitNames ==
    /\ \E s \in {StoryScenario, StorySecond} : AfterWriter(IdeasScenario, s)
    /\ today \in 1..MaxDays
    /\ \E day \in 1..MaxDays :
          \E names \in SUBSET NamesOf(DateStr(day), CleanedHeadline(story.text, metadata)) :
             files = [n \in names |-> 0]
    /\ index = DocWrapper
    /\ AllPresent

NextNames ==
    \/ SaveStoryPage
    \/ UpdateIndex

SpecNames == InitNames /\ [][NextNames]_vars

(***************************************************************************)
(* Reading the listing document                                            *)
(***************************************************************************)
\* the indices of the tokens of a tag, in document order
TagIndices(doc, tag) ==
    SelectSeq([i \in 1..Len(doc) |-> i], LAMBDA i : doc[i].tag = tag)
Count(doc, tag) == Len(TagIndices(doc, tag))

\* the story a card links to: the first link at or after index i, <<>> when none
CardRef(doc, i) ==
    Bind(FirstIndex(LAMBDA j : doc[j].tag = "link", i, Len(doc)), LAMBDA j :
        IF j > Len(doc) THEN <<>> ELSE doc[j].ref)

\* the stories of the cards of a tag, in document order
CardRefs(doc, tag) ==
    Bind(TagIndices(doc, tag), LAMBDA at : [k \in 1..Len(at) |-> CardRef(doc, at[k])])
FeaturedRefs(doc) == CardRefs(doc, "featOpen")
ArchiveRefs(doc) == CardRefs(doc, "cardOpen")

\* every Archive card stands after the opening of the Archive container
ArchiveCardsInGrid(doc) ==
    \A i \in 1..Len(doc) :
        doc[i].tag = "cardOpen" => \E g \in 1..(i - 1) : doc[g].tag = "gridOpen"

Reverse(q) == [i \in 1..Len(q) |-> q[Len(q) + 1 - i]]
Last(q) == q[Len(q)]

(***************************************************************************)
(* C1                                                                      *)
(***************************************************************************)
\* C1: from a listing with a main region, no Featured card and no Archive
\* container, after N >= 1 merges the listing holds exactly one Featured card,
\* that of the N-th merge, and exactly N Archive cards inside the Archive
\* container, newest first.
C1_MergeCounts ==
    merged # <<>> =>
        /\ FeaturedRefs(index) = <<Last(merged)>>
        /\ ArchiveRefs(index) = Reverse(merged)
        /\ ArchiveCardsInGrid(index)

(***************************************************************************)
(* C2                                                                      *)
(***************************************************************************)
\* C2: the bootstrap is guarded by the marker alone: a listing that holds the
\* Archive container marker is left unchanged by the bootstrap step, and after
\* any number of merges the listing holds at most one Archive container and at
\* most one archive section.
C2_BootstrapOnce ==
    /\ Count(index, "gridOpen") <= 1
    /\ Count(index, "archSecOpen") <= 1
    /\ HasTag(index, "gridOpen") => Bootstrap(index) = index

\* a second merge has been made into a listing that held the marker
C2_Witness ==
    /\ Len(merged) >= 2
    /\ Count(index, "gridOpen") = 1
    /\ Count(index, "archSecOpen") = 1

(***************************************************************************)
(* C3                                                                      *)
(***************************************************************************)
\* C3: the filename save_to_website chooses is not the name of a file present in
\* the stories directory, and every page written before keeps its content: no
\* step overwrites or removes a story page.
C3_NoOverwrite ==
    [][/\ \A n \in DOMAIN files : n \in DOMAIN files' /\ files'[n] = files[n]
       /\ (pc = "returned" /\ pc' = "index") =>
             /\ filename' \notin DOMAIN files
             /\ filename' \in DOMAIN files'
             /\ files'[filename'] = runs + 1]_vars

\* the second run has the headline and the date of the first, whose page exists:
\* it has written a page of another name
C3_Witness ==
    /\ pc = "index"
    /\ runs = 1
    /\ \E n \in DOMAIN files :
          /\ files[n] = 1
          /\ n = BaseName(DateStr(today), CleanedHeadline(story.text, metadata))
    /\ files[filename] = 2

(***************************************************************************)
(* C4                                                                      *)
(***************************************************************************)
\* the least k >= 1 whose suffixed name is not in names
LeastFreeSuffix(date, slug, names) ==
    CHOOSE k \in 1..(Cardinality(names) + 1) :
        /\ SuffixName(date, slug, k) \notin names
        /\ \A j \in 1..(k - 1) : SuffixName(date, slug, j) \in names

\* the name C4 states for a date, a slug and the set of existing names
StatedName(date, slug, names) ==
    IF BaseName(date, slug) \notin names THEN BaseName(date, slug)
    ELSE SuffixName(date, slug, LeastFreeSuffix(date, slug, names))

\* C4: the filename is '{date}-{slug}.html' when that name is free, otherwise
\* '{date}-{slug}-{k}.html' for the smallest k >= 1 whose name is not among the
\* existing names.
C4_LeastSuffix ==
    [][(pc = "returned" /\ pc' = "index") =>
          filename' = StatedName(DateStr(today),
                                 CleanedHeadline(story.text, metadata),
                                 DOMAIN files)]_vars

\* the base name and the suffixes 1 and 2 were taken: the page was named with 3
C4_Witness ==
    /\ pc = "index"
    /\ \E slug \in {CleanedHeadline(story.text, metadata)} :
          /\ filename = SuffixName(DateStr(today), slug, 3)
          /\ BaseName(DateStr(today), slug) \in DOMAIN files
          /\ SuffixName(DateStr(today), slug, 1) \in DOMAIN files
          /\ SuffixName(DateStr(today), slug, 2) \in DOMAIN files

(***************************************************************************)
(* C5                                                                      *)
(***************************************************************************)
\* C5: whenever at least one idea is parsed, the metadata write_feature returns
\* has a non-empty headline, whatever the story and however the title of the
\* chosen idea was obtained.
C5_HeadlineNonEmpty ==
    (pc = "returned" /\ calls.writer) => metadata.headline # <<>>

(***************************************************************************)
(* C6                                                                      *)
(***************************************************************************)
\* the paragraphs of the rendered body that carry the 'continue-reading' anchor
Anchored(content) == {i \in 1..Len(content) : content[i].anchor}

\* C6: for any story the rendered body has at least one paragraph and carries
\* the anchor on exactly one of them: the second when there are two or more,
\* otherwise the first, the placeholder included.
C6_OneAnchor ==
    pc = "index" =>
        /\ Len(story_content) >= 1
        /\ Anchored(story_content) = {IF Len(story_content) >= 2 THEN 2 ELSE 1}

(***************************************************************************)
(* C7                                                                      *)
(***************************************************************************)
\* the first occurrences of the elements of q, in order
FirstOccurrences(q) ==
    SelectSeq([i \in 1..Len(q) |-> [at |-> i, v |-> q[i]]],
              LAMBDA e : \A j \in 1..(e.at - 1) : q[j] # e.v)
Distinct(q) == Bind(FirstOccurrences(q), LAMBDA f : [i \in 1..Len(f) |-> f[i].v])

\* the leading numbers of the numbered lines of an ideas text, in order
LeadingNumbers(text) ==
    Bind(SelectSeq(IdeaLines(text), IsNumberedLine),
         LAMBDA ls : [i \in 1..Len(ls) |-> LineNumber(ls[i])])

\* the numbered line at index i has text: after its number, or on the line below
HasText(ls, i) ==
    \/ LineRest(ls[i]) # <<>>
    \/ (i < Len(ls) /\ ~IsNumberedLine(ls[i + 1]))

\* the leading numbers of the numbered lines that have text, in order
TextNumbersOf(ls) ==
    Bind(SelectSeq([i \in 1..Len(ls) |-> i],
                   LAMBDA i : IsNumberedLine(ls[i]) /\ HasText(ls, i)),
         LAMBDA at : [k \in 1..Len(at) |-> LineNumber(ls[at[k]])])
TextNumbers(text) == Bind(IdeaLines(text), LAMBDA ls : TextNumbersOf(ls))

\* the keys of idea_dict, in iteration order
MappingKeys(text) == DictKeys(IdeaDict(IdeaList(text)))

C8_OnlyAbort ==
    pc = "done" =>
        /\ LeadingNumbers(ideas) = <<>> => (story.none /\ ~calls.writer /\ ~calls.save)
        /\ LeadingNumbers(ideas) # <<>> => (calls.save /\ Last(merged) = filename)

(***************************************************************************)
(* C9                                                                      *)
(***************************************************************************)
W_paragraph_one == <<"P","a","r","a","g","r","a","p","h"," ","o","n","e",".">>
W_paragraph_two == <<"P","a","r","a","g","r","a","p","h"," ","t","w","o",".">>

\* C9: for the scenario story the paragraphs are the two body paragraphs, and the
\* anchor is on 'Paragraph two.'.
C9_ScenarioBody ==
    (pc = "index" /\ story.text = StoryScenario) =>
        /\ paragraphs = <<W_paragraph_one, W_paragraph_two>>
        /\ story_content = << [anchor |-> FALSE, text |-> W_paragraph_one],
                              [anchor |-> TRUE, text |-> W_paragraph_two] >>

InitResources ==
    /\ \E s \in {StoryScenario, StorySecond} : AfterWriter(IdeasScenario, s)
    /\ today \in 1..MaxDays
    /\ files = [n \in {} |-> 0]
    /\ story_template \in TemplatePlaces
    /\ index_exists \in BOOLEAN
    /\ index_template \in BOOLEAN
    /\ index \in (IF index_exists THEN InitialDocs ELSE {<<>>})

NextResources ==
    \/ SaveStoryPage
    \/ UpdateIndex
    \/ UpdateIndexFails

SpecResources == InitResources /\ [][NextResources]_vars

(***************************************************************************)
(* C11                                                                     *)
(***************************************************************************)
\* C11: a missing story template or a missing listing document, with or without
\* a listing template, is not fatal: a run that has written its story page never
\* ends without the listing written with the cards of that page.
C11_MissingNotFatal ==
    (pc \in {"done", "crashed"} /\ calls.save) =>
        /\ pc = "done"
        /\ filename \in DOMAIN files
        /\ index_exists
        /\ FeaturedRefs(index) = <<filename>>

(***************************************************************************)
(* write_feature on every writer's answer of the family                    *)
(***************************************************************************)
MaxSelectLines == 3

\* the lines a writer's answer is made of: selection sentences, 'Idea N:' labels,
\* a markdown heading, an upper-case headline, a body line
SelectLineKinds ==
    { <<"I"," ","c","h","o","o","s","e"," ","i","d","e","a"," ","2",".">>,
      <<"I","d","e","a"," ","1",":"," ","x">>,
      <<"I"," ","p","i","c","k","e","d"," ","i","d","e","a"," ","n","u","m","b","e","r"," ","3">>,
      <<"I","'","v","e"," ","S","E","L","E","C","T","E","D"," ","i","d","e","a"," ","1">>,
      <<"i","d","e","a"," ","n","u","m","b","e","r"," ","2",":"," ","y">>,
      <<"#"," ","T","h","e"," ","F","a","l","l">>,
      <<"T","H","E"," ","R","I","S","E"," ","A","N","D"," ","F","A","L","L"," ","O","F"," ","X">>,
      <<"B","o","d","y",".">>,
      <<"I","d","e","a"," ","1","2",":"," ","z">> }
\* every answer of at most MaxSelectLines such lines
SelectStories == {Join(ls, <<NL>>) : ls \in SeqsUpTo(SelectLineKinds, MaxSelectLines)}

InitSelect ==
    /\ pc = "ideas"
    /\ runs = 0
    /\ today = 1
    /\ ideas \in EditorResponses
    /\ editor_tokens = UsageTokens(ideas)
    /\ story = NoStory
    /\ writer_tokens = 0
    /\ metadata = NoMetadata
    /\ filename = <<>>
    /\ paragraphs = <<>>
    /\ story_content = <<>>
    /\ calls = NoCalls
    /\ files = [n \in {} |-> 0]
    /\ index = DocWrapper
    /\ AllPresent
    /\ merged = <<>>

WriteFeatureSelect == WriteFeatureOn(SelectStories)

NextSelect ==
    \/ WriteFeatureNoIdeas
    \/ WriteFeatureSelect

SpecSelect == InitSelect /\ [][NextSelect]_vars

(***************************************************************************)
(* C12                                                                     *)
(***************************************************************************)
HeadlineScanLines == 10
ShoutMinLen == 20

\* a markdown heading line, or a line of more than ShoutMinLen characters with no
\* terminal sentence punctuation and at least 30 percent of them upper-case
IsHeadingLine(line) == line # <<>> /\ line[1] = "#"
IsShoutedLine(line) ==
    /\ Len(line) > ShoutMinLen
    /\ line[Len(line)] \notin {".", "?", "!"}
    /\ 10 * Cardinality({i \in 1..Len(line) : IsUpper(line[i])}) >= 3 * Len(line)
IsHeadlineLine(line) == IsHeadingLine(line) \/ IsShoutedLine(line)
\* the heading text of a markdown heading line
HeadingText(line) == Strip(Drop(line, FirstIndex(LAMBDA j : line[j] # "#", 1, Len(line)) - 1))
\* the first headline line among the first HeadlineScanLines lines, <<>> when none
FirstHeadlineLine(text) ==
    Bind(Split(text, NL), LAMBDA ls :
        Bind(FirstIndex(LAMBDA i : IsHeadlineLine(Strip(ls[i])), 1, Len(ls)), LAMBDA i :
            IF i > Len(ls) \/ i > HeadlineScanLines THEN <<>> ELSE Strip(ls[i])))

\* C12: the headline is the parsed title of the chosen idea, with its description;
\* otherwise the first headline line of the story; otherwise the synthesized
\* headline with an empty description.
C12_HeadlineRules ==
    (pc = "returned" /\ calls.writer) =>
        Bind(DictGet(ParsedIdeas(IdeaList(ideas)), metadata.idea_number, NoInfo), LAMBDA info :
            Bind(FirstHeadlineLine(story.text), LAMBDA line :
                IF info.has
                THEN /\ metadata.headline = info.title
                     /\ metadata.description = info.description
                ELSE IF line # <<>>
                THEN metadata.headline \in {line, HeadingText(line)}
                ELSE /\ metadata.headline = FallbackHeadline(metadata.idea_number)
                     /\ metadata.description = <<>>))

(***************************************************************************)
(* C13                                                                     *)
(***************************************************************************)
Min(S) == CHOOSE x \in S : \A y \in S : x <= y
\* where the selection sentence, and the 'Idea N:' label, match in a text
SentenceStarts(t) == {i \in 1..Len(t) : SentenceDigitsAt(t, i) # {}}
LabelStarts(t) == {i \in 1..Len(t) : LabelDigitsAt(t, i) # {}}
\* the number a match at i captures
NumberAt(t, i) == DigitsNumber(t, CHOOSE x \in SentenceDigitsAt(t, i) \cup LabelDigitsAt(t, i) : TRUE)

\* C13: the idea number is that of the first selection sentence whenever one
\* matches anywhere in the story, even after an 'Idea N:' label; only otherwise
\* that of the first label; with neither it is 1, and the writer's call returns.
C13_SentenceFirst ==
    (pc = "returned" /\ calls.writer) =>
        /\ ~story.none
        /\ Bind(story.text, LAMBDA t :
              Bind(SentenceStarts(t), LAMBDA ss :
                 IF ss # {} THEN metadata.idea_number = NumberAt(t, Min(ss))
                 ELSE Bind(LabelStarts(t), LAMBDA ls :
                         IF ls # {} THEN metadata.idea_number = NumberAt(t, Min(ls))
                         ELSE metadata.idea_number = 1)))
\* a label comes before the first sentence and names another number, and the
\* sentence's number is chosen
C13_Witness ==
    /\ pc = "returned" /\ calls.writer
    /\ SentenceStarts(story.text) # {} /\ LabelStarts(story.text) # {}
    /\ Min(LabelStarts(story.text)) < Min(SentenceStarts(story.text))
    /\ NumberAt(story.text, Min(LabelStarts(story.text))) # metadata.idea_number
    /\ metadata.idea_number = NumberAt(story.text, Min(SentenceStarts(story.text)))

(***************************************************************************)
(* C18                                                                     *)
(***************************************************************************)
\* the number the story names, NoNumber when it names none
NamedNumber(t) ==
    Bind(SentenceStarts(t), LAMBDA ss :
        IF ss # {} THEN NumberAt(t, Min(ss))
        ELSE Bind(LabelStarts(t), LAMBDA ls :
                IF ls # {} THEN NumberAt(t, Min(ls)) ELSE NoNumber))

\* C18: when the story names an idea number that is not a key of the parsed
\* mapping, the selection is that of idea 1: its number, headline, description
\* and chosen idea.
C18_FallbackToOne ==
    (pc = "returned" /\ calls.writer) =>
        Bind(IdeaList(ideas), LAMBDA l :
            Bind(NamedNumber(story.text), LAMBDA n :
                (n # NoNumber /\ ~DictHas(ParsedIdeas(l), n)) =>
                    metadata = MetadataOf(1, DictGet(ParsedIdeas(l), 1, NoInfo),
                                          DictGet(IdeaDict(l), 1, <<>>))))

(***************************************************************************)
(* C17                                                                     *)
(***************************************************************************)
HasSub(t, p) == \E i \in 1..Len(t) : MatchAt(t, i, p)

\* C17: an idea with a quoted segment has that segment as its title and a
\* description that no longer contains the quoted title, whatever follows it; an
\* idea without quotes but with a colon is split at its first colon; an idea with
\* neither has no parsed title (of the ideas whose number is used once).
C17_TitleLeavesDescription ==
    (pc = "returned" /\ calls.writer) =>
        Bind(IdeaList(ideas), LAMBDA l :
            Bind(ParsedIdeas(l), LAMBDA parsed :
                \A i \in 1..Len(l) :
                    Bind(l[i][2], LAMBDA text :
                       Bind(DictGet(parsed, l[i][1], NoInfo), LAMBDA info :
                          \/ \E j \in (1..Len(l)) \ {i} : l[j][1] = l[i][1]
                          \/ Bind(TitleMatch(text), LAMBDA m :
                               IF m[1] # 0
                               THEN /\ info.has
                                    /\ info.title = SubSeq(text, m[1] + 1, m[2] - 1)
                                    /\ ~HasSub(info.description, SubSeq(text, m[1], m[2]))
                               ELSE IF Find(text, ":", 1) # 0
                               THEN /\ info.has
                                    /\ info.title = Strip(Take(text, Find(text, ":", 1) - 1))
                                    /\ info.description = Strip(Drop(text, Find(text, ":", 1)))
                               ELSE ~info.has)))))

(***************************************************************************)
(* C14                                                                     *)
(***************************************************************************)
\* the slug C14 states: the headline's, unless it is empty or the slug of the
\* synthesized headline of the chosen number; then that of the first usable story
\* line, else that of the chosen idea's raw text
StatedSlug(text, md) ==
    Bind(Slugify(md.headline), LAMBDA first :
        IF first # <<>> /\ first # Slugify(FallbackHeadline(md.idea_number)) THEN first
        ELSE Bind(LineSlug(Split(Strip(text), NL), 1), LAMBDA fromStory :
                IF fromStory # <<>> THEN fromStory
                ELSE IF md.chosen_idea # <<>>
                THEN Slugify(StripLeadingNumber(md.chosen_idea))
                ELSE first))

\* C14: a headline whose slug is empty or is the slug of the synthesized headline
\* escalates to the first usable story line and then to the chosen idea's raw
\* text, so the filename of a story with a synthesized headline carries that slug.
C14_GenericEscalates ==
    [][(pc = "returned" /\ pc' = "index") =>
          filename' = StatedName(DateStr(today), StatedSlug(story.text, metadata),
                                 DOMAIN files)]_vars

(***************************************************************************)
(* C15                                                                     *)
(***************************************************************************)
\* t from index i on without the announcement lines, and without the title
\* lines, it starts with
RECURSIVE LeadingChoiceCut(_, _)
LeadingChoiceCut(t, i) ==
    Bind(IF i > Len(t) THEN 0 ELSE ChoiceEnd(t, i), LAMBDA e :
        IF e = 0 THEN SubSeq(t, i, Len(t)) ELSE LeadingChoiceCut(t, e))
RECURSIVE LeadingTitleCut(_, _)
LeadingTitleCut(t, i) ==
    Bind(IF i > Len(t) THEN 0 ELSE TitleEnd(t, i), LAMBDA e :
        IF e = 0 THEN SubSeq(t, i, Len(t)) ELSE LeadingTitleCut(t, e))
\* the paragraphs of a story stripped at its very start only
StartStrippedParagraphs(raw) ==
    Bind(LeadingTitleCut(LeadingChoiceCut(Strip(raw), 1), 1), LAMBDA text :
        Bind(LoopedParagraphs(text), LAMBDA looped :
            IF looped # <<>> THEN looped
            ELSE StrippedNonEmpty(SplitBlank(text, 1))))

\* C15: the announcement and title stripping removes text at the very start of
\* the story only: the paragraphs are those of the story without its leading
\* announcement and title lines, so a later line is kept and no two paragraphs
\* are merged.
C15_StripsOnlyStart ==
    (pc = "index" /\ calls.save) => paragraphs = StartStrippedParagraphs(story.text)

(***************************************************************************)
(* save_to_website on every listing of the family                          *)
(***************************************************************************)
MaxArchiveCards == 2

\* the story pages the cards of a listing link to
OldNames == { BaseName(DateStr(1), <<"o","l","d">>),
              BaseName(DateStr(1), <<"o","l","d","e","r">>) }

\* Featured cards as a listing may hold them: the card of an earlier run, a card
\* edited to hold no inner block, a card edited to hold a block inside a block
FlatFeatured(name) ==
    << WS, Tok("featOpen"), WS, Tok("text"), WS, Link(name), WS, Tok("divClose"), WS >>
DeepFeatured(name) ==
    << WS, Tok("featOpen"), WS,
       Tok("divOpen"), WS, Tok("divOpen"), Tok("text"), Tok("divClose"), WS, Tok("divClose"), WS,
       Link(name), WS, Tok("divClose"), WS >>
FeaturedCards ==
    UNION {{FeaturedStory(n), FlatFeatured(n), DeepFeatured(n)} : n \in OldNames}

RECURSIVE Flatten(_)
Flatten(parts) == IF parts = <<>> THEN <<>> ELSE Head(parts) \o Flatten(Tail(parts))

\* a listing with a Featured card and an Archive container of cards
Listing(featured, names) ==
    << Tok("mainOpen"), WS, Tok("featSecOpen") >> \o featured
    \o << Tok("sectionClose"), WS, Tok("archSecOpen"), WS, Tok("text"), WS, Tok("gridOpen") >>
    \o Flatten([k \in 1..Len(names) |-> StoryCard(names[k])])
    \o << WS, Tok("divClose"), WS, Tok("sectionClose"), WS, Tok("mainClose") >>
Listings ==
    {Listing(f, names) : f \in FeaturedCards, names \in SeqsUpTo(OldNames, MaxArchiveCards)}

InitListing ==
    /\ \E s \in {StoryScenario, StorySecond} : AfterWriter(IdeasScenario, s)
    /\ today \in 1..MaxDays
    /\ files = [n \in OldNames |-> 0]
    /\ index \in Listings
    /\ AllPresent

NextListing ==
    \/ SaveStoryPage
    \/ UpdateIndex

SpecListing == InitListing /\ [][NextListing]_vars

(***************************************************************************)
(* C16                                                                     *)
(***************************************************************************)
\* the listing after the opening of its Archive container
AfterGrid(doc) ==
    Bind(FirstIndex(LAMBDA j : doc[j].tag = "gridOpen", 1, Len(doc)), LAMBDA g :
        SubSeq(doc, g + 1, Len(doc)))

\* C16: replacing the Featured card of a listing that holds one, whatever its
\* inner nesting, leaves the Archive alone: after the merge the container is
\* there and, behind the new card, holds what it held before, unchanged and in
\* the same order.
C16_ArchiveFrame ==
    [][(pc = "index" /\ pc' = "done" /\ HasTag(index, "featOpen")
            /\ HasTag(index, "gridOpen")) =>
          /\ HasTag(index', "gridOpen")
          /\ AfterGrid(index') = <<WS>> \o StoryCard(filename) \o AfterGrid(index)]_vars

(***************************************************************************)
(* C19                                                                     *)
(***************************************************************************)
\* the stories the cards of a listing link to
LinkRefs(doc) == {doc[i].ref : i \in {j \in 1..Len(doc) : doc[j].tag = "link"}}

\* C19: every story link of the listing names a story page that exists, and the
\* cards of a run that has persisted the listing, the Featured card and the
\* newest Archive card, link to the page this run wrote.
C19_LinksResolve ==
    /\ LinkRefs(index) \subseteq DOMAIN files
    /\ (pc = "done" /\ calls.save) =>
          /\ filename \in DOMAIN files
          /\ files[filename] = runs + 1
          /\ FeaturedRefs(index) # <<>>
          /\ Head(FeaturedRefs(index)) = filename
          /\ ArchiveRefs(index) # <<>> => Head(ArchiveRefs(index)) = filename
\* a second run has persisted the listing: its two cards link to its page, and
\* the Archive card of the first run links to the page of the first run
C19_Witness ==
    /\ pc = "done"
    /\ runs = 1
    /\ Len(ArchiveRefs(index)) = 2
    /\ Head(ArchiveRefs(index)) = filename
    /\ files[filename] = 2
    /\ files[ArchiveRefs(index)[2]] = 1

(***************************************************************************)
(* save_to_website on every headline of the family                         *)
(***************************************************************************)
MaxTitleLen == 3

\* the characters a title is made of: punctuation, a letter, a space, a hyphen,
\* an underscore
TitleChars == {"!", "A", SP, "-", "_"}
\* a title that is cut inside a run of hyphens
LongTitle == <<"a","a","a","a","a","a","a","a","a","a","a","a","a","a","a","a","a","a","a","a","a","a","a","a","a","a","a","a","a","a","a","a","a","a","a","a","a","a","a"," ","b">>
\* every title of at most MaxTitleLen such characters, and the long title
Titles == SeqsUpTo(TitleChars, MaxTitleLen) \cup {LongTitle}
\* the ideas texts of one idea with a quoted title, alone or with a description
TitledIdeas ==
    UNION {{<<"1", ".", SP, QUOTE>> \o t \o <<QUOTE>>,
            <<"1", ".", SP, QUOTE>> \o t \o <<QUOTE, ":", SP, "d">>} : t \in Titles}
\* a story with a line the slug can be taken from
StoryLongLine == <<"T","h","e"," ","q","u","i","e","t"," ","r","i","s","e"," ","o","f"," ","a"," ","d","y","n","a","s","t","y",NL,NL,"O","n","l","y"," ","p","a","r","a","g","r","a","p","h",".">>

InitSlug ==
    /\ \E i \in TitledIdeas :
          /\ IdeaList(i) # <<>>
          /\ \E s \in {StoryScenario, StoryLongLine} : AfterWriter(i, s)
    /\ today = 1
    /\ files = [n \in {} |-> 0]
    /\ index = DocWrapper
    /\ AllPresent

NextSlug ==
    \/ SaveStoryPage
    \/ UpdateIndex

SpecSlug == InitSlug /\ [][NextSlug]_vars

(***************************************************************************)
(* C20                                                                     *)
(***************************************************************************)
\* the slug of a filename '{date}-{slug}.html'
SlugPart(name) == SubSeq(name, Len(DateStr(1)) + 2, Len(name) - Len(W_html))
WellFormedSlug(s) ==
    /\ Len(s) >= 1
    /\ Len(s) <= SlugMaxLen
    /\ \A i \in 1..Len(s) : IsWord(s[i]) \/ s[i] = "-"
    /\ \A i \in 1..(Len(s) - 1) : ~(s[i] = "-" /\ s[i + 1] = "-")
    /\ s[1] # "-"
    /\ s[Len(s)] # "-"

\* C20: the slug of the filename is never empty and is well-formed: one to 40
\* word characters and single hyphens, with no hyphen at either end.
C20_SlugWellFormed ==
    (pc \in {"index", "done"} /\ calls.save) => WellFormedSlug(SlugPart(filename))

====
